---- MODULE Spec2Model ----
(***************************************************************************)
(* Loan ledger of the loan management system: approval of an application  *)
(* (which creates the Loan through a post_save signal), disbursement      *)
(* (which creates the payment schedule) and recording of payments.        *)
(*                                                                         *)
(* Money is held in cents (DecimalField, decimal_places=2); interest      *)
(* rates in hundredths of a percent.  Dates are integers yyyymmdd, 0 is   *)
(* NULL.  Every HTTP request is handled by a client slot; a handler is    *)
(* split where it talks to the database, so that requests interleave the  *)
(* way transactions without row locks do: the code takes no               *)
(* select_for_update lock and writes whole rows back with save().         *)
(***************************************************************************)
EXTENDS Integers, Sequences, FiniteSets, TLC

VARIABLES
    app,        \* the LoanApplication row (with its LoanType's fields)
    loan,       \* the Loan row of the application (exists = FALSE: no row)
    schedule,   \* the PaymentSchedule rows of the loan, in primary-key order
    payments,   \* the Payment rows, in primary-key order
    req,        \* per client: the request being handled and what it has read
    response,   \* the response the last step sent, if it sent one
    today       \* the server's current date

vars == <<app, loan, schedule, payments, req, response, today>>

---------------------------------------------------------------------------
\* Bounds of the model

MaxPayments == 2

Clients == {1, 2}

\* principal of the application, in cents
Amounts == {20000, 10001}

\* loan products: rate in hundredths of a percent
LoanTypes ==
    { [interest_rate_type |-> "flat_rate",    interest_rate |-> 1000, term_months |-> 2],
      [interest_rate_type |-> "flat_rate",    interest_rate |-> 1000, term_months |-> 0],
      [interest_rate_type |-> "flat_rate",    interest_rate |-> 1000, term_months |-> -1],
      [interest_rate_type |-> "monthly_rate", interest_rate |-> 200,  term_months |-> 6],
      [interest_rate_type |-> "yearly_rate",  interest_rate |-> 1200, term_months |-> 12],
      [interest_rate_type |-> "compound",     interest_rate |-> 1000, term_months |-> 3] }

\* the day the requests are made
StartDates == {20240131}

\* loan_pk values a payment request may carry: none (0), the loan's, and
\* one that no loan has
LoanPks == {0, 1, 2}

\* the payment submissions the callers make, each with the transaction id
\* the caller gives it; a submission may be sent any number of times
Submissions ==
    { [txid |-> 1, amount_paid |-> -500,  payment_date |-> 20240205],
      [txid |-> 3, amount_paid |-> 500,   payment_date |-> 20240215],
      [txid |-> 4, amount_paid |-> 11000, payment_date |-> 20240228] }

---------------------------------------------------------------------------
\* Dates (datetime.date and dateutil.relativedelta)

Year(d) == d \div 10000
Month(d) == (d \div 100) % 100
Day(d) == d % 100

IsLeap(y) == (y % 4 = 0 /\ y % 100 # 0) \/ y % 400 = 0

DaysInMonth(y, m) ==
    IF m = 2 THEN (IF IsLeap(y) THEN 29 ELSE 28)
    ELSE IF m \in {4, 6, 9, 11} THEN 30 ELSE 31

MkDate(y, m, d) == y * 10000 + m * 100 + d

\* d + relativedelta(months=1): the same day of the next month, clamped to
\* the length of that month
AddMonth(d) ==
    LET y == IF Month(d) = 12 THEN Year(d) + 1 ELSE Year(d)
        m == IF Month(d) = 12 THEN 1 ELSE Month(d) + 1
        dim == DaysInMonth(y, m)
    IN MkDate(y, m, IF Day(d) > dim THEN dim ELSE Day(d))

---------------------------------------------------------------------------
\* Decimal arithmetic

\* n/d rounded to an integer, ties to even: what a DecimalField stores
\* (quantize under the default context, ROUND_HALF_EVEN); d > 0
RoundHalfEven(n, d) ==
    LET q == n \div d
        r == n % d
    IN IF 2 * r < d THEN q
       ELSE IF 2 * r > d THEN q + 1
       ELSE IF q % 2 = 0 THEN q ELSE q + 1

\* principal + principal * rate / 100, as a fraction of cents over 10000
TotalPayableNum(amount, rate) == amount * 10000 + amount * rate

\* balance the signal stores on the new Loan
TotalBalance(amount, rate) == RoundHalfEven(TotalPayableNum(amount, rate), 10000)

\* total_payable / term_months as stored in due_amount; term > 0
MonthlyPayment(amount, rate, term) ==
    RoundHalfEven(TotalPayableNum(amount, rate), 10000 * term)

---------------------------------------------------------------------------
\* Rows

NoLoan ==
    [exists |-> FALSE, amount |-> 0, interest_rate |-> 0, term_months |-> 0,
     balance |-> 0, disbursed |-> FALSE, disbursement_date |-> 0]

NoEntry ==
    [due_date |-> 0, due_amount |-> 0, principal_due |-> 0, interest_due |-> 0,
     is_paid |-> FALSE, date_paid |-> 0, is_overdue |-> FALSE]

Idle ==
    [kind |-> "none", pc |-> "idle",
     loan_pk |-> 0, amount_paid |-> 0, payment_date |-> 0, txid |-> 0,
     r_app |-> [status |-> "none", date_disbursed |-> 0],
     r_loan |-> NoLoan, r_idx |-> 0, r_entry |-> NoEntry]

\* a new request is taken by the first free client slot (the slots are
\* interchangeable)
Free(c) ==
    /\ req[c].pc = "idle"
    /\ \A d \in Clients : d < c => req[d].pc # "idle"

NoResponse == [kind |-> "none", result |-> "none"]

\* the handler returns: the response goes out and the client slot is free
Finish(c, r, result) ==
    /\ req' = [req EXCEPT ![c] = Idle]
    /\ response' = [kind |-> r.kind, result |-> result]

---------------------------------------------------------------------------
\* Signals (core/signals.py)

\* a receiver that does not look for an existing Loan
LoanAfterAppSaveAlways(status) ==
    IF status = "approved"
    THEN [exists |-> TRUE,
          amount |-> app.amount,
          interest_rate |-> app.interest_rate,
          term_months |-> app.term_months,
          balance |-> TotalBalance(app.amount, app.interest_rate),
          disbursed |-> FALSE,
          disbursement_date |-> 0]
    ELSE loan

\* post_save of LoanApplication: the Loan row after the application was
\* saved with the given status
LoanAfterAppSave(status) ==
    IF status = "approved" /\ ~loan.exists
    THEN [exists |-> TRUE,
          amount |-> app.amount,
          interest_rate |-> app.interest_rate,
          term_months |-> app.term_months,
          balance |-> TotalBalance(app.amount, app.interest_rate),
          disbursed |-> FALSE,
          disbursement_date |-> 0]
    ELSE loan

---------------------------------------------------------------------------
\* LoanApplicationViewSet.approve

\* get_object() and the status check
ApproveBegin(c) ==
    /\ Free(c)
    /\ LET r == [Idle EXCEPT !.kind = "approve",
                             !.r_app = [status |-> app.status,
                                        date_disbursed |-> app.date_disbursed]]
       IN IF app.status = "pending"
          THEN /\ req' = [req EXCEPT ![c] = [r EXCEPT !.pc = "approve_save"]]
               /\ response' = NoResponse
          ELSE Finish(c, r, "cannot_approve")
    /\ UNCHANGED <<app, loan, schedule, payments, today>>

\* loan_application.save() writes the row as it was read, with the new
\* status, and fires the signal that creates the Loan
ApproveSave(c) ==
    /\ req[c].pc = "approve_save"
    /\ app' = [app EXCEPT !.status = "approved",
                          !.date_disbursed = req[c].r_app.date_disbursed]
    /\ loan' = LoanAfterAppSave("approved")
    /\ Finish(c, req[c], "approved")
    /\ UNCHANGED <<schedule, payments, today>>

---------------------------------------------------------------------------
\* LoanApplicationViewSet.disburse

\* a list of flat types that also takes an unknown type
FlatTypesAndOthers == {"flat", "flat_rate", "compound"}

FlatTypes == {"flat", "flat_rate"}

DecliningTypes == {"monthly", "monthly_rate", "yearly", "yearly_rate"}

RECURSIVE NewEntries(_, _, _)

\* a loop that does not advance current_date: every row is due a month after
\* the disbursement
NewEntriesSameDate(n, prev_date, monthly_payment) ==
    IF n <= 0 THEN <<>>
    ELSE [i \in 1..n |->
             [due_date |-> AddMonth(prev_date),
              due_amount |-> monthly_payment,
              principal_due |-> monthly_payment,
              interest_due |-> 0,
              is_paid |-> FALSE,
              date_paid |-> 0,
              is_overdue |-> FALSE]]

\* the rows the loop creates: one per month, each a month after the last
NewEntries(n, prev_date, monthly_payment) ==
    IF n <= 0 THEN <<>>
    ELSE LET d == AddMonth(prev_date)
         IN <<[due_date |-> d,
               due_amount |-> monthly_payment,
               principal_due |-> monthly_payment,
               interest_due |-> 0,
               is_paid |-> FALSE,
               date_paid |-> 0,
               is_overdue |-> FALSE]>>
            \o NewEntries(n - 1, d, monthly_payment)

\* a handler that lets an application through whatever its status
DisburseBeginUnchecked(c) ==
    /\ Free(c)
    /\ req' = [req EXCEPT ![c] =
                 [Idle EXCEPT !.kind = "disburse", !.pc = "disburse_begun",
                              !.r_app = [status |-> app.status,
                                         date_disbursed |-> app.date_disbursed]]]
    /\ response' = NoResponse
    /\ UNCHANGED <<app, loan, schedule, payments, today>>

\* get_object() and the status check
DisburseBegin(c) ==
    /\ Free(c)
    /\ LET r == [Idle EXCEPT !.kind = "disburse",
                             !.r_app = [status |-> app.status,
                                        date_disbursed |-> app.date_disbursed]]
       IN IF app.status # "approved"
          THEN Finish(c, r, "not_approved")
          ELSE /\ req' = [req EXCEPT ![c] = [r EXCEPT !.pc = "disburse_begun"]]
               /\ response' = NoResponse
    /\ UNCHANGED <<app, loan, schedule, payments, today>>

\* get_object_or_404(Loan, application=loan_application) inside the atomic
\* block; Http404 is caught by the handler's except clause
DisburseLoadLoan(c) ==
    /\ req[c].pc = "disburse_begun"
    /\ IF loan.exists
       THEN /\ req' = [req EXCEPT ![c] = [@ EXCEPT !.pc = "disburse_loaded",
                                                   !.r_loan = loan]]
            /\ response' = NoResponse
       ELSE Finish(c, req[c], "error_500")
    /\ UNCHANGED <<app, loan, schedule, payments, today>>

\* the rest of the atomic block: the two save() calls and the schedule
DisburseCommit(c) ==
    /\ req[c].pc = "disburse_loaded"
    /\ LET type == app.interest_rate_type
           term == app.term_months
           saved_loan == [req[c].r_loan EXCEPT !.disbursed = TRUE,
                                               !.disbursement_date = today]
           saved_app == [app EXCEPT !.status = "disbursed",
                                    !.date_disbursed = today]
       IN IF type \in DecliningTypes
          THEN \* Decimal * float raises TypeError: rolled back, and the
               \* except clause answers 500 with the exception's message
               /\ Finish(c, req[c], "error_500_TypeError")
               /\ UNCHANGED <<app, loan, schedule>>
          ELSE IF type \notin FlatTypes
          THEN \* the return inside the atomic block commits what was saved
               /\ app' = saved_app
               /\ loan' = saved_loan
               /\ Finish(c, req[c], "unsupported_rate_type")
               /\ UNCHANGED schedule
          ELSE IF term = 0
          THEN \* total_payable / 0 raises DivisionByZero: rolled back
               /\ Finish(c, req[c], "error_500_DivisionByZero")
               /\ UNCHANGED <<app, loan, schedule>>
          ELSE /\ app' = saved_app
               /\ loan' = saved_loan
               /\ schedule' = schedule \o
                     NewEntries(term, today,
                                IF term > 0
                                THEN MonthlyPayment(app.amount, app.interest_rate, term)
                                ELSE 0)
               /\ Finish(c, req[c], "disbursed")
    /\ UNCHANGED <<payments, today>>

---------------------------------------------------------------------------
\* PaymentViewSet.create and PaymentSerializer.create

Unpaid == {i \in 1..Len(schedule) : ~schedule[i].is_paid}

\* a query that falls back on the last entry when none is unpaid
LastIfNoneUnpaid ==
    IF Unpaid # {}
    THEN {i \in Unpaid : \A j \in Unpaid : schedule[i].due_date <= schedule[j].due_date}
    ELSE {i \in 1..Len(schedule) : i = Len(schedule)}

\* loan.payment_schedule.filter(is_paid=False).order_by('due_date').first():
\* the rows the query may return (rows with equal due dates are in no
\* defined order)
FirstUnpaid == {i \in Unpaid : \A j \in Unpaid : schedule[i].due_date <= schedule[j].due_date}

\* a condition that looks at the balance only
MarksPaidOnBalance(new_balance, amount_paid, due_amount) == new_balance <= 0

\* a stricter condition than MarksPaid: a payment of exactly the due amount
\* does not settle the entry
MarksPaidStrict(new_balance, amount_paid, due_amount) ==
    new_balance <= 0 \/ amount_paid > due_amount

\* is_paid is set when the condition of the final if-statement holds
MarksPaid(new_balance, amount_paid, due_amount) ==
    new_balance <= 0 \/ amount_paid >= due_amount

\* a balance that is not let below zero
NewBalanceClamped(balance, amount_paid) ==
    IF balance - amount_paid < 0 THEN 0 ELSE balance - amount_paid

\* balance written by loan.save()
NewBalance(balance, amount_paid) == balance - amount_paid

\* validation, the loan_pk lookup, Loan.objects.get and the balance check;
\* transaction_id is a read-only field, so the id the caller sends is dropped.
\* Once MaxPayments payments are recorded, only the requests that the
\* checks reject are followed.
PayBegin(c, pk, sub) ==
    /\ Free(c)
    /\ \/ Len(payments) < MaxPayments
       \/ loan.balance <= 0
       \/ Unpaid = {}
    /\ LET r == [Idle EXCEPT !.kind = "pay", !.loan_pk = pk,
                             !.amount_paid = sub.amount_paid,
                             !.payment_date = sub.payment_date,
                             !.txid = sub.txid]
       IN IF pk = 0 THEN Finish(c, r, "loan_pk_required")
          ELSE IF ~(pk = 1 /\ loan.exists) THEN Finish(c, r, "loan_not_found")
          ELSE IF loan.balance <= 0 THEN Finish(c, r, "fully_paid")
          ELSE /\ req' = [req EXCEPT ![c] = [r EXCEPT !.pc = "pay_loan", !.r_loan = loan]]
               /\ response' = NoResponse
    /\ UNCHANGED <<app, loan, schedule, payments, today>>

\* the query for the current schedule entry
PayReadSchedule(c) ==
    /\ req[c].pc = "pay_loan"
    /\ IF FirstUnpaid = {}
       THEN Finish(c, req[c], "no_pending_schedule")
       ELSE /\ \E i \in FirstUnpaid :
                  req' = [req EXCEPT ![c] = [@ EXCEPT !.pc = "pay_sched",
                                                      !.r_idx = i,
                                                      !.r_entry = schedule[i]]]
            /\ response' = NoResponse
    /\ UNCHANGED <<app, loan, schedule, payments, today>>

\* loan.save(), Payment.objects.create and payment_schedule.save()
PayCommit(c) ==
    /\ req[c].pc = "pay_sched"
    /\ Len(payments) < MaxPayments
    /\ LET r == req[c]
           new_balance == NewBalance(r.r_loan.balance, r.amount_paid)
       IN /\ loan' = [r.r_loan EXCEPT !.balance = new_balance]
          /\ payments' = Append(payments,
                [payment_schedule |-> r.r_idx,
                 amount_paid |-> r.amount_paid,
                 payment_date |-> today,
                 transaction_id |-> Len(payments) + 1,
                 sent_txid |-> r.txid])
          /\ schedule' =
                IF MarksPaid(new_balance, r.amount_paid, r.r_entry.due_amount)
                THEN [schedule EXCEPT ![r.r_idx] =
                         [r.r_entry EXCEPT !.is_paid = TRUE,
                                           !.date_paid = r.payment_date]]
                ELSE schedule
          /\ Finish(c, r, "created")
    /\ UNCHANGED <<app, today>>

\* an exception after loan.save() that is not rolled back
AbortKeepsBalance(c) ==
    /\ req[c].pc \in {"disburse_loaded", "pay_loan", "pay_sched"}
    /\ loan' = IF req[c].pc = "pay_sched"
               THEN [req[c].r_loan EXCEPT
                        !.balance = NewBalance(req[c].r_loan.balance, req[c].amount_paid)]
               ELSE loan
    /\ Finish(c, req[c], "error_500")
    /\ UNCHANGED <<app, schedule, payments, today>>

\* an exception inside transaction.atomic (a database error, a lock timeout)
\* rolls the request back
Abort(c) ==
    /\ req[c].pc \in {"disburse_loaded", "pay_loan", "pay_sched"}
    /\ Finish(c, req[c], "error_500")
    /\ UNCHANGED <<app, loan, schedule, payments, today>>

---------------------------------------------------------------------------

Init ==
    /\ \E a \in Amounts, t \in LoanTypes, s \in {"pending", "rejected"} :
          app = [status |-> s, amount |-> a,
                 interest_rate_type |-> t.interest_rate_type,
                 interest_rate |-> t.interest_rate,
                 term_months |-> t.term_months,
                 date_disbursed |-> 0]
    /\ loan = NoLoan
    /\ schedule = <<>>
    /\ payments = <<>>
    /\ req = [c \in Clients |-> Idle]
    /\ response = NoResponse
    /\ today \in StartDates

Next ==
    \/ \E c \in Clients : ApproveBegin(c)
    \/ \E c \in Clients : ApproveSave(c)
    \/ \E c \in Clients : DisburseBegin(c)
    \/ \E c \in Clients : DisburseLoadLoan(c)
    \/ \E c \in Clients : DisburseCommit(c)
    \/ \E c \in Clients, pk \in LoanPks, sub \in Submissions : PayBegin(c, pk, sub)
    \/ \E c \in Clients : PayReadSchedule(c)
    \/ \E c \in Clients : PayCommit(c)
    \/ \E c \in Clients : Abort(c)

Spec == Init /\ [][Next]_vars

---------------------------------------------------------------------------
\* Disbursement alone, over a wider range of terms, amounts and dates: the
\* application is approved and the signal has created its Loan

MaxTerm == 14

ScheduleAmounts == {120000, 10001}

ScheduleDates == {20240131, 20230131, 20231130, 20241231}

ScheduleInit ==
    /\ \E a \in ScheduleAmounts, n \in 1..MaxTerm :
          /\ app = [status |-> "approved", amount |-> a,
                    interest_rate_type |-> "flat_rate",
                    interest_rate |-> 1000,
                    term_months |-> n,
                    date_disbursed |-> 0]
          /\ loan = [exists |-> TRUE, amount |-> a, interest_rate |-> 1000,
                     term_months |-> n, balance |-> TotalBalance(a, 1000),
                     disbursed |-> FALSE, disbursement_date |-> 0]
    /\ schedule = <<>>
    /\ payments = <<>>
    /\ req = [c \in Clients |-> Idle]
    /\ response = NoResponse
    /\ today \in ScheduleDates

ScheduleNext ==
    \/ \E c \in Clients : DisburseBegin(c)
    \/ \E c \in Clients : DisburseLoadLoan(c)
    \/ \E c \in Clients : DisburseCommit(c)

ScheduleSpec == ScheduleInit /\ [][ScheduleNext]_vars

---------------------------------------------------------------------------
\* Requests one after another: a request is taken only when no other is
\* being handled

NoneInFlight == \A c \in Clients : req[c].pc = "idle"

SequentialNext ==
    \/ \E c \in Clients : NoneInFlight /\ ApproveBegin(c)
    \/ \E c \in Clients : ApproveSave(c)
    \/ \E c \in Clients : NoneInFlight /\ DisburseBegin(c)
    \/ \E c \in Clients : DisburseLoadLoan(c)
    \/ \E c \in Clients : DisburseCommit(c)
    \/ \E c \in Clients, pk \in LoanPks, sub \in Submissions :
          NoneInFlight /\ PayBegin(c, pk, sub)
    \/ \E c \in Clients : PayReadSchedule(c)
    \/ \E c \in Clients : PayCommit(c)
    \/ \E c \in Clients : Abort(c)

SequentialSpec == Init /\ [][SequentialNext]_vars

---------------------------------------------------------------------------
\* Payments on a disbursed flat loan of two months, each of an amount that
\* settles an entry, with different payment dates

SettlingSubmissions ==
    { [txid |-> 4, amount_paid |-> 11000, payment_date |-> 20240228],
      [txid |-> 5, amount_paid |-> 11000, payment_date |-> 20240301] }

SettlingInit ==
    /\ \E a \in Amounts :
          /\ app = [status |-> "disbursed", amount |-> a,
                    interest_rate_type |-> "flat_rate",
                    interest_rate |-> 1000,
                    term_months |-> 2,
                    date_disbursed |-> 20240131]
          /\ loan = [exists |-> TRUE, amount |-> a, interest_rate |-> 1000,
                     term_months |-> 2, balance |-> TotalBalance(a, 1000),
                     disbursed |-> TRUE, disbursement_date |-> 20240131]
          /\ schedule = NewEntries(2, 20240131, MonthlyPayment(a, 1000, 2))
    /\ payments = <<>>
    /\ req = [c \in Clients |-> Idle]
    /\ response = NoResponse
    /\ today = 20240131

SettlingNext ==
    \/ \E c \in Clients, sub \in SettlingSubmissions : PayBegin(c, 1, sub)
    \/ \E c \in Clients : PayReadSchedule(c)
    \/ \E c \in Clients : PayCommit(c)
    \/ \E c \in Clients : Abort(c)

SettlingSpec == SettlingInit /\ [][SettlingNext]_vars

---------------------------------------------------------------------------
\* Properties

EntryDue(i) == schedule[i].principal_due + schedule[i].interest_due

\* sum of principal_due + interest_due over the entries in S
RECURSIVE SumDue(_)
SumDue(S) ==
    IF S = {} THEN 0
    ELSE LET i == CHOOSE x \in S : TRUE
         IN EntryDue(i) + SumDue(S \ {i})

UnpaidDue == SumDue(Unpaid)

\* sum of amount_paid over the first n Payment rows
RECURSIVE SumPaid(_)
SumPaid(n) == IF n = 0 THEN 0 ELSE payments[n].amount_paid + SumPaid(n - 1)

TotalPaid == SumPaid(Len(payments))

\* within the rounding tolerance of one cent
Within(a, b) == a - b <= 1 /\ b - a <= 1

\* the loan was disbursed and has the one schedule batch of its term
DisbursedOnce ==
    /\ loan.exists /\ loan.disbursed
    /\ loan.term_months > 0
    /\ Len(schedule) = loan.term_months

\* client c records a payment in this step
Records(c) ==
    /\ req[c].pc = "pay_sched"
    /\ req'[c].pc = "idle"
    /\ Len(payments') = Len(payments) + 1

\* client c's disburse call returns in this step
DisburseReturns(c) ==
    /\ req[c].kind = "disburse"
    /\ req'[c].pc = "idle"

\* client c selects its schedule entry in this step
Selects(c) ==
    /\ req[c].pc = "pay_loan"
    /\ req'[c].pc = "pay_sched"

\* every recorded payment has a positive amount
PositivePayments == \A i \in DOMAIN payments : payments[i].amount_paid > 0

\* C1: once the loan is disbursed and its schedule created, and whatever
\* payments of positive amounts have been recorded, the balance equals the
\* sum of principal_due + interest_due over the unpaid entries, within one
\* cent.
C1_LedgerReconciled ==
    (DisbursedOnce /\ PositivePayments) => Within(loan.balance, UnpaidDue)

\* C2: with payment requests against the disbursed loan overlapping in any
\* way, no balance update is lost: the balance is the balance at
\* disbursement less the sum of all recorded amounts.
C2_NoLostUpdate ==
    (DisbursedOnce /\ PositivePayments) =>
        loan.balance = TotalBalance(loan.amount, loan.interest_rate) - TotalPaid

\* C3: the balance after a recorded payment is at most the balance before it.
C3_BalanceNonIncrease ==
    [][\A c \in Clients : Records(c) => loan'.balance <= loan.balance]_vars

\* C4: a payment request whose amount is zero or negative never gets the
\* "created" answer and changes neither the loan, the schedule nor the
\* Payment rows.
C4_NonPositiveRejected ==
    [][\A c \in Clients :
          (req[c].kind = "pay" /\ req[c].amount_paid <= 0 /\ req'[c].pc = "idle")
          => /\ response'.result # "created"
             /\ UNCHANGED <<loan, schedule, payments>>]_vars

\* C5: no two Payment rows of the disbursed loan come from submissions with
\* the same caller-supplied transaction id.
C5_DuplicateIdempotent ==
    (DisbursedOnce /\ PositivePayments) =>
        \A i, j \in DOMAIN payments :
            i # j => payments[i].sent_txid # payments[j].sent_txid

\* C6: the schedule batch is created once: the loan never has more than
\* term_months schedule entries.
C6_ScheduleCreatedOnce ==
    loan.exists =>
        Len(schedule) <= (IF loan.term_months > 0 THEN loan.term_months ELSE 0)

\* C7: a disburse call either marks the loan disbursed, sets the
\* application's status to 'disbursed' and adds the full batch of
\* term_months entries, or changes none of the three.
C7_DisburseAllOrNothing ==
    [][\A c \in Clients :
          DisburseReturns(c) =>
             \/ /\ loan'.disbursed
                /\ app'.status = "disbursed"
                /\ Len(schedule') = Len(schedule) +
                      (IF app.term_months > 0 THEN app.term_months ELSE 0)
             \/ UNCHANGED <<app, loan, schedule>>]_vars

\* C8: the entry a recorded payment (of a positive amount, against the
\* loan's one schedule batch) is linked to was unpaid when the payment was
\* recorded, and no unpaid entry had an earlier due date.
C8_AllocatedToCurrent ==
    [][\A c \in Clients :
          (Records(c) /\ DisbursedOnce /\ PositivePayments /\ req[c].amount_paid > 0)
          => LET i == payments'[Len(payments')].payment_schedule
             IN /\ i \in Unpaid
                /\ \A j \in Unpaid : schedule[i].due_date <= schedule[j].due_date]_vars

\* C9: a recorded payment of amount a <= interest_due of the entry it is
\* allocated to lowers that entry's interest_due by a, leaves its
\* principal_due as it was and leaves the entry unpaid.
C9_InterestFirst ==
    [][\A c \in Clients :
          (Records(c) /\ req[c].amount_paid <= schedule[req[c].r_idx].interest_due)
          => LET i == req[c].r_idx
             IN /\ schedule'[i].interest_due =
                      schedule[i].interest_due - req[c].amount_paid
                /\ schedule'[i].principal_due = schedule[i].principal_due
                /\ ~schedule'[i].is_paid]_vars

\* C10: a recorded payment equal to interest_due + principal_due of the
\* entry it is allocated to leaves that entry paid, with the payment's date
\* as its paid date; and a payment request that selects its entry afterwards
\* is given an unpaid entry, the one with the earliest due date.
C10_FullSettlement ==
    [][\A c \in Clients :
          /\ (Records(c) /\ req[c].amount_paid = EntryDue(req[c].r_idx))
             => /\ schedule'[req[c].r_idx].is_paid
                /\ schedule'[req[c].r_idx].date_paid = req[c].payment_date
          /\ Selects(c)
             => /\ ~schedule[req'[c].r_idx].is_paid
                /\ \A j \in 1..Len(schedule) :
                      schedule[j].due_date < schedule[req'[c].r_idx].due_date
                      => schedule[j].is_paid]_vars

\* C10 witness: the first entry was settled by a payment of its full amount
\* and a later request has been given the second entry.
C10_Witness ==
    /\ DisbursedOnce
    /\ Len(payments) = 1
    /\ payments[1].payment_schedule = 1
    /\ payments[1].amount_paid = EntryDue(1)
    /\ schedule[1].is_paid
    /\ schedule[1].date_paid = 20240228
    /\ \E c \in Clients : req[c].pc = "pay_sched" /\ req[c].r_idx = 2

---------------------------------------------------------------------------
\* Schedule generation

\* client c's disburse call runs the rest of its atomic block in this step
\* and returns, without a database fault
DisburseCompletes(c) ==
    /\ req[c].pc = "disburse_loaded"
    /\ req'[c].pc = "idle"
    /\ response'.result # "error_500"

\* the entries this step adds to the schedule
Generated == SubSeq(schedule', Len(schedule) + 1, Len(schedule'))

RECURSIVE SumPrincipalDue(_)
SumPrincipalDue(n) ==
    IF n = 0 THEN 0 ELSE schedule[n].principal_due + SumPrincipalDue(n - 1)

RECURSIVE SumInterestDue(_)
SumInterestDue(n) ==
    IF n = 0 THEN 0 ELSE schedule[n].interest_due + SumInterestDue(n - 1)

\* principal * rate / 100, in cents
TotalInterest(amount, rate) == RoundHalfEven(amount * rate, 10000)

\* C11: the first disbursement of a flat-rate loan with a positive term adds
\* term_months entries, each with due_amount = (principal +
\* principal*rate/100)/term_months, principal_due = principal/term_months and
\* interest_due = (principal*rate/100)/term_months.
C11_FlatSchedule ==
    [][\A c \in Clients :
          (/\ DisburseCompletes(c)
           /\ app.interest_rate_type \in FlatTypes
           /\ app.term_months > 0
           /\ ~loan.disbursed)
          => /\ Len(Generated) = app.term_months
             /\ \A i \in DOMAIN Generated :
                   /\ Generated[i].due_amount =
                         MonthlyPayment(app.amount, app.interest_rate, app.term_months)
                   /\ Generated[i].principal_due =
                         RoundHalfEven(app.amount, app.term_months)
                   /\ Generated[i].interest_due =
                         RoundHalfEven(app.amount * app.interest_rate,
                                       10000 * app.term_months)]_vars

\* C12: in the schedule of a disbursed loan the principal_due of all entries
\* sum to the principal, within one cent, and the interest_due sum to the
\* total interest of the loan, within one cent.
C12_ScheduleSum ==
    DisbursedOnce =>
        /\ Within(SumPrincipalDue(Len(schedule)), loan.amount)
        /\ Within(SumInterestDue(Len(schedule)),
                  TotalInterest(loan.amount, loan.interest_rate))

\* entries es form a declining-balance schedule on the balance remaining:
\* each interest_due is remaining * num / den, each principal_due is
\* due_amount - interest_due, and remaining drops by principal_due
RECURSIVE Declining(_, _, _, _)
Declining(es, remaining, num, den) ==
    IF es = <<>> THEN TRUE
    ELSE /\ Head(es).interest_due = RoundHalfEven(remaining * num, den)
         /\ Head(es).principal_due = Head(es).due_amount - Head(es).interest_due
         /\ Declining(Tail(es), remaining - Head(es).principal_due, num, den)

\* C13: the first disbursement of a monthly-rate loan succeeds and adds
\* term_months entries that form a declining-balance schedule at rate/100
\* per month on the principal.
C13_MonthlySchedule ==
    [][\A c \in Clients :
          (/\ DisburseCompletes(c)
           /\ app.interest_rate_type = "monthly_rate"
           /\ app.term_months > 0
           /\ ~loan.disbursed)
          => /\ response'.result = "disbursed"
             /\ loan'.disbursed
             /\ Len(Generated) = app.term_months
             /\ Declining(Generated, app.amount, app.interest_rate, 10000)]_vars

\* C14: the first disbursement of a yearly-rate loan succeeds and adds
\* term_months entries, each with principal_due = principal/term_months and
\* interest_due = remaining balance * rate/100/12, so that due_amount
\* declines from entry to entry.
C14_YearlySchedule ==
    [][\A c \in Clients :
          (/\ DisburseCompletes(c)
           /\ app.interest_rate_type = "yearly_rate"
           /\ app.term_months > 0
           /\ ~loan.disbursed)
          => /\ response'.result = "disbursed"
             /\ loan'.disbursed
             /\ Len(Generated) = app.term_months
             /\ Declining(Generated, app.amount, app.interest_rate, 120000)
             /\ \A i \in DOMAIN Generated :
                   /\ Generated[i].principal_due =
                         RoundHalfEven(app.amount, app.term_months)
                   /\ i > 1 => Generated[i].due_amount < Generated[i - 1].due_amount]_vars

\* b is the date one calendar month after a: the next month, on a's day of
\* the month or, where that month is shorter, on its last day
OneMonthAfter(a, b) ==
    /\ Year(b) * 12 + Month(b) = Year(a) * 12 + Month(a) + 1
    /\ Day(b) = (IF Day(a) > DaysInMonth(Year(b), Month(b))
                 THEN DaysInMonth(Year(b), Month(b)) ELSE Day(a))

\* C15: in the batch of entries a disbursement creates, the first due date
\* is one calendar month after the disbursement date, each later due date
\* is one calendar month after the one before it, and the due dates are
\* strictly increasing.
C15_MonotonicDueDates ==
    [][\A c \in Clients :
          (DisburseCompletes(c) /\ response'.result = "disbursed")
          => /\ Len(Generated) = app.term_months
             /\ OneMonthAfter(today, Generated[1].due_date)
             /\ loan'.disbursement_date = today
             /\ \A i \in 2..Len(Generated) :
                   /\ OneMonthAfter(Generated[i - 1].due_date, Generated[i].due_date)
                   /\ Generated[i - 1].due_date < Generated[i].due_date]_vars

\* C15 witness: a schedule generated on 31 January of a leap year, clamped
\* to 29 February and running on into the next year
C15_Witness ==
    /\ response = [kind |-> "disburse", result |-> "disbursed"]
    /\ today = 20240131
    /\ Len(schedule) = 14
    /\ schedule[1].due_date = 20240229
    /\ schedule[2].due_date = 20240329
    /\ schedule[12].due_date = 20250129

---------------------------------------------------------------------------
\* Rejections

\* C16: disbursing a loan whose interest rate type is none of the known ones
\* is answered with the unsupported-rate-type error and adds no schedule
\* entry.
C16_UnsupportedRateType ==
    [][\A c \in Clients :
          (/\ DisburseCompletes(c)
           /\ app.interest_rate_type \notin
                 {"flat", "flat_rate", "monthly", "monthly_rate", "yearly", "yearly_rate"})
          => /\ response'.result = "unsupported_rate_type"
             /\ schedule' = schedule]_vars

\* C16 witness: the disbursement of a loan of type "compound" was answered
\* with the error and there is no schedule
C16_Witness ==
    /\ response = [kind |-> "disburse", result |-> "unsupported_rate_type"]
    /\ app.interest_rate_type = "compound"
    /\ schedule = <<>>

\* C17: disbursing a loan whose term_months is zero or negative returns an
\* error, does not mark the loan disbursed and creates no schedule.
C17_InvalidTermRejected ==
    [][\A c \in Clients :
          (/\ DisburseCompletes(c)
           /\ app.interest_rate_type \in {"flat", "flat_rate"}
           /\ app.term_months <= 0
           /\ ~loan.disbursed)
          => /\ response'.result # "disbursed"
             /\ ~loan'.disbursed
             /\ schedule' = schedule]_vars

\* C18: a disburse request for an application whose status is not
\* 'approved' is answered with the not-approved error and changes neither
\* the application, the loan nor the schedule; only a request that found
\* the status 'approved' goes on to disburse.
C18_NotApprovedRejected ==
    [][/\ \A c \in Clients :
             /\ (req[c].pc = "idle" /\ req'[c].kind = "disburse")
                => app.status = "approved"
             /\ (DisburseCompletes(c) /\ response'.result = "disbursed")
                => req[c].r_app.status = "approved"
       /\ (response'.result = "not_approved")
          => /\ app.status # "approved"
             /\ UNCHANGED <<app, loan, schedule>>]_vars

\* C18 witness: a disburse request for an application already disbursed was
\* answered with the error
C18_Witness ==
    /\ response = [kind |-> "disburse", result |-> "not_approved"]
    /\ app.status = "disbursed"
    /\ DisbursedOnce

\* C19: a payment request that ends with anything but the "created" answer
\* leaves the loan, every schedule entry and the Payment rows as they were.
C19_PaymentAtomic ==
    [][(response'.kind = "pay" /\ response'.result # "created")
       => UNCHANGED <<loan, schedule, payments>>]_vars

\* C19 witness: a payment request failed with a server error on a disbursed
\* loan that has a recorded payment, and the ledger is as that payment left
\* it
C19_Witness ==
    /\ response = [kind |-> "pay", result |-> "error_500"]
    /\ DisbursedOnce
    /\ Len(payments) = 1
    /\ payments[1].amount_paid = 500
    /\ loan.balance = TotalBalance(loan.amount, loan.interest_rate) - 500

\* every schedule entry of the loan is paid
AllPaid == \A i \in 1..Len(schedule) : schedule[i].is_paid

\* C20: a payment request that looks for the current entry when the loan
\* has no unpaid entry is answered with the no-pending-schedule error, and a
\* request rejected because the loan is fully paid or has no pending entry
\* changes neither the loan, the schedule nor the Payment rows.
C20_NoOutstandingSchedule ==
    [][/\ \A c \in Clients :
             (/\ req[c].pc = "pay_loan"
              /\ req'[c].pc # "pay_loan"
              /\ AllPaid
              /\ response'.result # "error_500")
             => response' = [kind |-> "pay", result |-> "no_pending_schedule"]
       /\ (response'.result \in {"fully_paid", "no_pending_schedule"})
          => UNCHANGED <<loan, schedule, payments>>]_vars

\* C20 witness: every entry of the disbursed loan is paid and a payment
\* request was answered with the no-pending-schedule error
C20_Witness ==
    /\ response = [kind |-> "pay", result |-> "no_pending_schedule"]
    /\ DisbursedOnce
    /\ AllPaid
    /\ Len(payments) = 2

---------------------------------------------------------------------------
\* Ledger

\* C21: a payment (of a positive amount, after payments of positive
\* amounts) is recorded only against a loan that exists and is disbursed,
\* either when the request reads it or when the payment is written; a
\* request that names no existing loan changes nothing.
C21_UndisbursedRejected ==
    [][/\ \A c \in Clients :
             (Records(c) /\ PositivePayments /\ req[c].amount_paid > 0) =>
                /\ loan.exists
                /\ loan.disbursed \/ req[c].r_loan.disbursed
       /\ (response'.result = "loan_not_found")
          => UNCHANGED <<loan, schedule, payments>>]_vars

\* C22: after payments of positive amounts on a disbursed loan, the balance
\* is not above zero (by more than a cent) once every entry is paid, and is
\* above zero while some entry is unpaid.
C22_ZeroIffLastPaid ==
    (DisbursedOnce /\ PositivePayments) =>
        /\ AllPaid => loan.balance <= 1
        /\ ~AllPaid => loan.balance > 0

\* C23: every entry that is marked paid has principal_due and interest_due
\* of at most one cent.
C23_PaidMeansSettled ==
    \A i \in 1..Len(schedule) :
        schedule[i].is_paid =>
            /\ schedule[i].principal_due <= 1
            /\ schedule[i].interest_due <= 1

\* C24: a recorded payment of a positive amount below what remains due on
\* the entry it is allocated to lowers interest_due + principal_due of that
\* entry by the amount.
C24_PartialAccumulates ==
    [][\A c \in Clients :
          (/\ Records(c)
           /\ req[c].amount_paid > 0
           /\ req[c].amount_paid < EntryDue(req[c].r_idx))
          => schedule'[req[c].r_idx].principal_due + schedule'[req[c].r_idx].interest_due
                = EntryDue(req[c].r_idx) - req[c].amount_paid]_vars

\* C28: once the loan is marked disbursed, no step (payments being of
\* positive amounts) changes its amount, interest_rate, term_months,
\* disbursed flag or disbursement_date.
C28_FrozenTerms ==
    [][(loan.exists /\ loan.disbursed /\ PositivePayments')
       => /\ loan'.exists
          /\ loan'.amount = loan.amount
          /\ loan'.interest_rate = loan.interest_rate
          /\ loan'.term_months = loan.term_months
          /\ loan'.disbursed
          /\ loan'.disbursement_date = loan.disbursement_date]_vars

\* place of a status in the life of an application
StatusRank(status) ==
    IF status = "disbursed" THEN 2 ELSE IF status = "approved" THEN 1 ELSE 0

\* C30: no step takes the status of an application (for a loan of a
\* positive term) back: 'approved' stays or becomes 'disbursed', 'disbursed'
\* stays, and a rejected approve or disburse request leaves the status as it
\* was.
C30_StatusForward ==
    [][/\ app.term_months > 0
          => StatusRank(app'.status) >= StatusRank(app.status)
       /\ (response'.result \in {"cannot_approve", "not_approved"})
          => app'.status = app.status]_vars

\* C25: with requests handled one after another, the balance of the
\* disbursed loan is its balance at disbursement less the sum of amount_paid
\* over all Payment rows.
C25_BalanceIsInitialLessPaid ==
    (loan.exists /\ loan.disbursed) =>
        loan.balance = TotalBalance(loan.amount, loan.interest_rate) - TotalPaid

\* C25 witness: payments of 5.00 and 110.00 on a loan of 110.01, the second
\* one more than the entry's 55.01, took the balance to -4.99
C25_Witness ==
    /\ DisbursedOnce
    /\ loan.amount = 10001
    /\ Len(payments) = 2
    /\ payments[1].amount_paid = 500
    /\ payments[2].amount_paid = 11000
    /\ schedule[payments[2].payment_schedule].due_amount = 5501
    /\ loan.balance = -499

\* C26: a recorded payment changes no schedule entry but the one the
\* request selected as current, and adds or removes none; when its amount
\* exceeds what remains due on that entry, the entry is marked paid; and the
\* entry a request selects is the earliest-due unpaid one.
C26_NoRollForward ==
    [][\A c \in Clients :
          /\ Records(c)
             => /\ Len(schedule') = Len(schedule)
                /\ \A j \in 1..Len(schedule) :
                      j # req[c].r_idx => schedule'[j] = schedule[j]
                /\ req[c].amount_paid > EntryDue(req[c].r_idx)
                   => schedule'[req[c].r_idx].is_paid
          /\ Selects(c)
             => /\ req'[c].r_idx \in 1..Len(schedule)
                /\ ~schedule[req'[c].r_idx].is_paid
                /\ \A j \in 1..Len(schedule) :
                      ~schedule[j].is_paid
                      => schedule[req'[c].r_idx].due_date <= schedule[j].due_date]_vars

\* C26 witness: a payment of 110.00 against the first entry of 55.01 marked
\* it paid and left the second entry unpaid, with its amounts as generated
C26_Witness ==
    /\ DisbursedOnce
    /\ Len(payments) = 1
    /\ payments[1].amount_paid = 11000
    /\ payments[1].payment_schedule = 1
    /\ schedule[1].due_amount = 5501
    /\ schedule[1].is_paid
    /\ ~schedule[2].is_paid
    /\ schedule[2].due_amount = 5501
    /\ schedule[2].principal_due = 5501
    /\ loan.balance = 1

\* C27: an entry that is marked paid stays paid and keeps its paid date.
C27_PaidPermanent ==
    [][\A i \in 1..Len(schedule) :
          schedule[i].is_paid
          => /\ Len(schedule') >= i
             /\ schedule'[i].is_paid
             /\ schedule'[i].date_paid = schedule[i].date_paid]_vars

\* C29: the application has a Loan from the moment it is saved as
\* 'approved', the Loan is created by that save and by no other step, and a
\* later save of the approved application leaves the existing Loan as it
\* is.
C29_OneLoanPerApplication ==
    [][/\ loan.exists => loan'.exists
       /\ (app'.status \in {"approved", "disbursed"}) => loan'.exists
       /\ (~loan.exists /\ loan'.exists)
          => /\ response' = [kind |-> "approve", result |-> "approved"]
             /\ loan'.amount = app.amount
             /\ ~loan'.disbursed
       /\ (loan.exists /\ response'.kind = "approve") => loan' = loan]_vars

\* C29 witness: the approved application was saved again by a second
\* approve request after its loan had been disbursed, and the loan is still
\* the disbursed one
C29_Witness ==
    /\ response = [kind |-> "approve", result |-> "approved"]
    /\ app.status = "approved"
    /\ loan.exists /\ loan.disbursed
    /\ Len(schedule) = 2

====
